---- MODULE Spec2Model ----
(***************************************************************************)
(* QPaper Forge: the generation session of the App component               *)
(* (src/unnamed/part_000), the generation client callGenerateApi and the   *)
(* intermediary edge function handler (src/api/generate.ts).               *)
(*                                                                         *)
(* JavaScript values are encoded uniformly:                                *)
(*   - an optional value (null / undefined / absent property) is a         *)
(*     sequence of length 0, a present one a sequence of length 1;         *)
(*   - a thrown exception is a record with threw = TRUE and its message;   *)
(*   - a JSON text is a record saying whether it parses and to what.       *)
(***************************************************************************)
EXTENDS Integers, Sequences, FiniteSets, TLC

VARIABLES
    \* React state of App (part_000:364-377)
    form, paper, seed, regenLeft, busy, error, isAuthReady,
    \* module-scoped configuration (part_000:12-65) and server environment
    db, apiKey, serverKey,
    \* the invocations of handleGenerate that are suspended at an await
    inflight,
    \* history: regeneration requests sent, successful regenerations, and a
    \* description of the last click or completion
    regenSent, regenOk, lastEvent,
    \* one exchange of the intermediary handler, stepped on its own
    hreq, hpc, hresp, hcalls,
    \* one call of a function stepped on its own (wrapText, buildPrompt,
    \* exportToPDF): its arguments, what it returned or drew, what the call
    \* before it returned or drew, and whether it has run
    xargs, xret, xprev, xpc

vars == <<form, paper, seed, regenLeft, busy, error, isAuthReady, db, apiKey,
          serverKey, inflight, regenSent, regenOk, lastEvent,
          hreq, hpc, hresp, hcalls, xargs, xret, xprev, xpc>>

sessionVars == <<form, paper, seed, regenLeft, busy, error, isAuthReady, db,
                 apiKey, inflight, regenSent, regenOk, lastEvent>>

handlerVars == <<hreq, hpc, hresp, hcalls>>

callVars == <<xargs, xret, xprev, xpc>>

----------------------------------------------------------------------------
(* Bounds of the model *)

\* regeneration requests sent in one session
MaxRegenRequests == 4

\* the seeds of this model: the ends of the range of
\* Math.floor(Math.random() * 1e9) (part_000:371, 484)
Seeds == {0, 999999999}

----------------------------------------------------------------------------
(* Helpers *)

None == <<>>

Some(v) == <<v>>

Max(a, b) == IF a >= b THEN a ELSE b

Min(a, b) == IF a <= b THEN a ELSE b

\* part_000:103
clamp(n, a, b) == Max(a, Min(n, b))

\* the object spread { ...a, k1: v1, ... }: later keys win
Spread(a, b) ==
    [k \in (DOMAIN a) \cup (DOMAIN b) |-> IF k \in DOMAIN b THEN b[k] ELSE a[k]]

Throw(msg) == [threw |-> TRUE, message |-> msg, value |-> None]

Return(v) == [threw |-> FALSE, message |-> "", value |-> Some(v)]

----------------------------------------------------------------------------
(* The blueprint (FormState) and the prompt builder *)

\* part_000:349-360
defaultForm ==
    [board |-> "CBSE", grade |-> "Class 12", subject |-> "Mathematics",
     topic |-> "Integration", timeLimitMinutes |-> 180, totalMarks |-> 100,
     language |-> "English", difficulty |-> "medium",
     counts |-> [mcq |-> 5, short |-> 6, long |-> 3, numerical |-> 6],
     extraInstructions |->
         "Follow recent exam blueprints; emphasize conceptual reasoning and application."]

\* what the form inputs of part_000:568-616 can be set to in this model:
\* the pairs <<key, value>> handed to onChange
FormEdits == { <<"board", "CBSE">>, <<"board", "ICSE">> }

\* part_000:301-328, kept as one block of text
schema == "Return JSON in this exact TypeScript shape: { metadata, structure }"

\* part_000:287-333; the prompt is the sequence of its lines (split at \n)
buildPrompt(input) ==
    << "Generate a balanced question paper that matches Indian school patterns. Constraints:",
       "- Board: " \o input.board,
       "- Grade/Class: " \o input.grade,
       "- Subject: " \o input.subject,
       "- Topic/Unit: " \o input.topic,
       "- Overall difficulty: " \o input.difficulty,
       "- Time limit: " \o ToString(input.timeLimitMinutes) \o " minutes",
       "- Total marks: " \o ToString(input.totalMarks),
       "- Language: " \o input.language,
       "- Include sections grouped by type.",
       "- Number of questions per type: MCQ=" \o ToString(input.counts.mcq)
           \o ", Short=" \o ToString(input.counts.short)
           \o ", Long=" \o ToString(input.counts.long)
           \o ", Numerical=" \o ToString(input.counts.numerical) \o ".",
       "- MCQs must include 4 options.",
       "- Provide short, precise model answers (do not reveal in the main body if typical exam would not). You may include answers inline in the JSON but questions must be clean.",
       "- Use unique IDs for questions.",
       "- Avoid repetition and ensure syllabus-accurate content for "
           \o input.subject \o " (" \o input.topic \o ").",
       IF input.extraInstructions # "" THEN "- Extra: " \o input.extraInstructions ELSE "",
       "",
       schema,
       "Return ONLY the JSON object." >>

\* part_000:476-481: the counts are clamped into [0,50] before compiling
ClampedForm(f) ==
    [f EXCEPT !.counts = [mcq |-> clamp(f.counts.mcq, 0, 50),
                          short |-> clamp(f.counts.short, 0, 50),
                          long |-> clamp(f.counts.long, 0, 50),
                          numerical |-> clamp(f.counts.numerical, 0, 50)]]

\* part_000:486
modelToUse == "google/gemini-2.0-flash-thinking-exp"

----------------------------------------------------------------------------
(* What the model provider can answer *)

\* a sections value: an array, or (nothing checks the type) a string
OneSection ==
    [type |-> "array", length |-> 1,
     items |-> << [title |-> "Section A",
                   questions |-> << [id |-> "q1", type |-> "short",
                                     text |-> "Define integration."] >>] >>]

NoSections == [type |-> "array", length |-> 0, items |-> <<>>]

TextSections == [type |-> "string", length |-> 3, items |-> <<>>]

\* metadata as the model may return it: every field in conflict with the
\* blueprint, plus a field the schema does not know
ModelMetadata ==
    [board |-> "Model Board", grade |-> "Model Grade", subject |-> "Model Subject",
     topic |-> "Model Topic", timeLimitMinutes |-> 1, totalMarks |-> 1,
     language |-> "Klingon", version |-> "9.9", seed |-> 12345,
     author |-> "model"]

\* a JSON text and the value JSON.parse gives for it
Json(kind, md, st) == [json |-> kind, metadata |-> md, structure |-> st]

Contents ==
    { Json("invalid", None, None),                                  \* not JSON
      Json("null", None, None),                                     \* null
      Json("object", None, None),                                   \* {}
      Json("object", Some(ModelMetadata), None),                    \* no structure
      Json("object", None, Some([sections |-> None])),              \* no sections
      Json("object", None, Some([sections |-> Some(NoSections)])),  \* sections: []
      Json("object", None, Some([sections |-> Some(TextSections)])),\* sections: "abc"
      Json("object", None, Some([sections |-> Some(OneSection)])),
      Json("object", Some(ModelMetadata), Some([sections |-> Some(OneSection)])) }

\* a response body: text that parses as JSON or not, and, when it is the
\* completion envelope, choices[0].message.content if present
Body(kind, txt, c) == [json |-> kind, text |-> txt, content |-> c]

Text(txt) == Body("invalid", txt, None)

Envelopes ==
    { Text("<html>"), Body("null", "null", None), Body("object", "{}", None) }
    \cup { Body("object", "{choices}", Some(c)) : c \in Contents }

\* HTTP statuses the provider answers with in this model
UpstreamStatuses == {200, 304, 429, 999}

StatusText(s) ==
    CASE s = 200 -> "OK"
      [] s = 304 -> "Not Modified"
      [] s = 429 -> "Too Many Requests"
      [] OTHER -> ""

\* the outcome of a fetch: it rejects, or resolves to a response
Rejected(msg) == [failed |-> TRUE, message |-> msg, status |-> 0, body |-> Text("")]

Response(b, s) == [failed |-> FALSE, message |-> "", status |-> s, body |-> b]

UpstreamReplies ==
    { Rejected("fetch failed") }
    \cup { Response(b, 200) : b \in Envelopes }
    \cup { Response(Text("upstream error"), s) : s \in UpstreamStatuses \ {200} }

\* Response.ok
Ok(res) == res.status >= 200 /\ res.status <= 299

----------------------------------------------------------------------------
(* The intermediary: handler of src/api/generate.ts *)

\* a request to /api/generate: its method and its body, a JSON text that is
\* invalid, null, or an object with optional prompt, model and seed
Request(m, kind, p, mo, sd) ==
    [method |-> m, json |-> kind, prompt |-> p, model |-> mo, seed |-> sd]

\* !prompt: undefined and the empty text (no line) are falsy
FalsyPrompt(opt) == opt = None \/ opt = Some(<<>>)

\* !model: undefined and the empty string are falsy
FalsyModel(opt) == opt = None \/ opt = Some("")

\* new Response(body, {status}) of the Fetch standard: a status outside
\* 200..599 is a RangeError, a body with a null-body status a TypeError
NewResponse(b, s) ==
    IF s < 200 \/ s > 599
    THEN Throw("init[\"status\"] must be in the range of 200 to 599, inclusive.")
    ELSE IF s \in {204, 205, 304}
    THEN Throw("Response with null body status cannot have body")
    ELSE Return(Response(b, s))

\* the mutation of handlerBeforeFetch that lacks the credential check of
\* generate.ts:36-40
handlerBeforeFetchNoKeyCheck(request, key) ==
    IF request.method # "POST"
    THEN [done |-> TRUE, threw |-> FALSE,
          response |-> Response(Text("Error: Method Not Allowed"), 405)]
    ELSE IF request.json = "invalid"
    THEN [done |-> TRUE, threw |-> FALSE,
          response |-> Response(Text("Error: Invalid JSON body"), 400)]
    ELSE IF request.json = "null"
    THEN [done |-> TRUE, threw |-> TRUE,
          response |-> Rejected("Cannot destructure property 'prompt' of 'body' as it is null.")]
    ELSE IF FalsyPrompt(request.prompt) \/ FalsyModel(request.model)
    THEN [done |-> TRUE, threw |-> FALSE,
          response |-> Response(Text("Error: Missing prompt or model"), 400)]
    ELSE [done |-> FALSE, threw |-> FALSE, response |-> Rejected("")]

\* generate.ts:11-56, up to the call of the provider: the response the
\* handler returns without calling (done), an escaped exception (threw), or
\* the payload it goes on to send
handlerBeforeFetch(request, key) ==
    IF request.method # "POST"
    THEN [done |-> TRUE, threw |-> FALSE,
          response |-> Response(Text("Error: Method Not Allowed"), 405)]
    ELSE IF request.json = "invalid"
    THEN [done |-> TRUE, threw |-> FALSE,
          response |-> Response(Text("Error: Invalid JSON body"), 400)]
    ELSE IF request.json = "null"
    \* const { prompt, model, seed } = null, outside every try
    THEN [done |-> TRUE, threw |-> TRUE,
          response |-> Rejected("Cannot destructure property 'prompt' of 'body' as it is null.")]
    ELSE IF FalsyPrompt(request.prompt) \/ FalsyModel(request.model)
    THEN [done |-> TRUE, threw |-> FALSE,
          response |-> Response(Text("Error: Missing prompt or model"), 400)]
    ELSE IF key = ""
    THEN [done |-> TRUE, threw |-> FALSE,
          response |-> Response(Text("Error: Server configuration error"), 500)]
    ELSE [done |-> FALSE, threw |-> FALSE, response |-> Rejected("")]

\* generate.ts:58-91: what the handler returns once the call of the
\* provider has settled with reply
handlerAfterFetch(reply) ==
    IF reply.failed
    THEN Response(Text("Error: " \o (IF reply.message # "" THEN reply.message
                                      ELSE "Unknown error")), 500)
    ELSE IF ~Ok(reply)
    THEN LET r == NewResponse(Text("Error from AI API: " \o StatusText(reply.status)),
                              reply.status)
         IN  IF r.threw
             THEN Response(Text("Error: " \o r.message), 500)
             ELSE r.value[1]
    ELSE Response(reply.body, 200)

\* the whole exchange, given how the provider would answer
handler(request, key, reply) ==
    LET pre == handlerBeforeFetch(request, key)
    IN  IF pre.done THEN pre.response ELSE handlerAfterFetch(reply)

\* whether the exchange calls the provider
CallsUpstream(request, key) == ~handlerBeforeFetch(request, key).done

----------------------------------------------------------------------------
(* The generation client and the validation of its result *)

\* part_000:277-281, given the settled fetch of /api/generate
callGenerateApi(res) ==
    IF res.failed THEN Throw(res.message)
    ELSE IF ~Ok(res) THEN Throw("API error " \o ToString(res.status))
    \* res.json()
    ELSE IF res.body.json = "invalid"
    THEN Throw("Unexpected token '<', \"" \o res.body.text \o "\" is not valid JSON")
    \* data.choices of null
    ELSE IF res.body.json = "null"
    THEN Throw("Cannot read properties of null (reading 'choices')")
    ELSE LET content == IF res.body.content = None
                        THEN Json("object", None, None)   \* ?? "{}"
                        ELSE res.body.content[1]
         IN  IF content.json = "invalid"
             THEN Throw("Unexpected end of JSON input")
             ELSE Return(content)

\* result?.structure?.sections?.length
SectionsLength(result) ==
    IF result.json = "null" \/ result.structure = None THEN 0
    ELSE IF result.structure[1].sections = None THEN 0
    ELSE result.structure[1].sections[1].length

\* mutations of Backfill: the spread of the model's metadata comes last and
\* wins; the seed is the session's instead of the one sent
BackfillSpreadLast(result, f, activeSeed) ==
    Spread([version |-> "1.0", seed |-> activeSeed, board |-> f.board,
            grade |-> f.grade, subject |-> f.subject, topic |-> f.topic,
            timeLimitMinutes |-> f.timeLimitMinutes, totalMarks |-> f.totalMarks,
            language |-> f.language],
           IF result.metadata = None THEN <<>> ELSE result.metadata[1])

BackfillSessionSeed(result, f, activeSeed) ==
    Spread(IF result.metadata = None THEN <<>> ELSE result.metadata[1],
           [version |-> "1.0", seed |-> seed, board |-> f.board,
            grade |-> f.grade, subject |-> f.subject, topic |-> f.topic,
            timeLimitMinutes |-> f.timeLimitMinutes, totalMarks |-> f.totalMarks,
            language |-> f.language])

\* part_000:494-505: the metadata the stored paper gets
Backfill(result, f, activeSeed) ==
    Spread(IF result.metadata = None THEN <<>> ELSE result.metadata[1],
           [version |-> "1.0", seed |-> activeSeed, board |-> f.board,
            grade |-> f.grade, subject |-> f.subject, topic |-> f.topic,
            timeLimitMinutes |-> f.timeLimitMinutes, totalMarks |-> f.totalMarks,
            language |-> f.language])

\* part_000:488-507, given the settled fetch: the paper to store, or the
\* error that reaches the catch of part_000:510
Generated(res, f, activeSeed) ==
    LET r == callGenerateApi(res)
    IN  IF r.threw THEN r
        ELSE IF SectionsLength(r.value[1]) = 0
        THEN Throw("Model returned empty structure")
        ELSE Return([metadata |-> Backfill(r.value[1], f, activeSeed),
                     structure |-> r.value[1].structure[1]])

----------------------------------------------------------------------------
(* The session: App and handleGenerate *)

\* part_000:372, useState<number>(3)
RegenBudget == 3

\* part_000:14, the default client-side key
DefaultKey == "sk-or-v1"

\* part_000:442
KeyMissing ==
    "API Key is missing. Please set VITE_OPENROUTER_API_KEY in your .env.local file and restart the server."

\* how fetch("/api/generate") can fail before any response arrives
ClientFailures == { Rejected("Failed to fetch"), Rejected("") }

\* what lastEvent records: the kind of event, and for an attempt its
\* isRegenerate, whether it succeeded with the form edited in flight, the
\* provider's status (0: not called or no answer), the status the client
\* saw (0: none) and the kind of sections value callGenerateApi returned
Event(k, r, ed, up, st, sec) ==
    [kind |-> k, isRegenerate |-> r, edited |-> ed,
     upstream |-> up, status |-> st, sections |-> sec]

\* the kind of sections value in what callGenerateApi returned
SectionsKind(r) ==
    IF r.threw THEN "none"
    ELSE LET v == r.value[1]
         IN  IF v.json = "null" \/ v.structure = None THEN "absent"
             ELSE IF v.structure[1].sections = None THEN "absent"
             ELSE IF v.structure[1].sections[1].type # "array" THEN "not-array"
             ELSE IF v.structure[1].sections[1].length = 0 THEN "empty"
             ELSE "array"

\* an invocation of handleGenerate suspended at an await (pc: "log" at
\* part_000:465, "fetch" at part_000:488) with the values of its closure
Attempt(n, r, f, s, p, as) ==
    [id |-> n, isRegenerate |-> r, form |-> f, seed |-> s, pc |-> p, activeSeed |-> as]

\* The buttons. handleGenerate itself tests neither busy nor regenLeft: the
\* disabled attributes are the only guard. React commits the state set in a
\* click handler before the next event is dispatched, so the attributes are
\* those of the current state.

\* part_000:623 with the check of busy left out
GenerateDisabledNotBusy == ~isAuthReady

\* part_000:623, disabled={busy || !isAuthReady}
GenerateDisabled == busy \/ ~isAuthReady

\* part_000:626 with the check of the budget left out
RegenerateDisabledAnyBudget == busy \/ ~isAuthReady

\* part_000:626, disabled={busy || regenLeft <= 0 || !isAuthReady}
RegenerateDisabled == busy \/ regenLeft <= 0 \/ ~isAuthReady

Disabled(isRegenerate) ==
    IF isRegenerate THEN RegenerateDisabled ELSE GenerateDisabled

\* part_000:476-488: the request callGenerateApi sends for attempt a
RequestOf(a) ==
    Request("POST", "object", Some(buildPrompt(ClampedForm(a.form))),
            Some(modelToUse), Some(a.activeSeed))

\* part_000:511 without the fallback
ErrorMessageNoFallback(e) == e.message

\* part_000:511
ErrorMessage(e) == IF e.message # "" THEN e.message ELSE "Generation failed"

\* mutations of Outcome: the catch clears the paper; the budget is never
\* decremented; the seed is stored after a regeneration too
OutcomeClearsPaper(a, res) ==
    LET g == Generated(res, a.form, a.activeSeed)
    IN  IF g.threw
        THEN [paper |-> None, error |-> Some(ErrorMessage(g)),
              regenLeft |-> regenLeft, seed |-> seed]
        ELSE [paper |-> Some(g.value[1]), error |-> error,
              regenLeft |-> IF a.isRegenerate THEN clamp(regenLeft - 1, 0, 99)
                            ELSE regenLeft,
              seed |-> IF ~a.isRegenerate THEN a.activeSeed ELSE seed]

OutcomeNoDecrement(a, res) ==
    LET g == Generated(res, a.form, a.activeSeed)
    IN  IF g.threw
        THEN [paper |-> paper, error |-> Some(ErrorMessage(g)),
              regenLeft |-> regenLeft, seed |-> seed]
        ELSE [paper |-> Some(g.value[1]), error |-> error,
              regenLeft |-> regenLeft,
              seed |-> IF ~a.isRegenerate THEN a.activeSeed ELSE seed]

OutcomeSeedAlways(a, res) ==
    LET g == Generated(res, a.form, a.activeSeed)
    IN  IF g.threw
        THEN [paper |-> paper, error |-> Some(ErrorMessage(g)),
              regenLeft |-> regenLeft, seed |-> seed]
        ELSE [paper |-> Some(g.value[1]), error |-> error,
              regenLeft |-> IF a.isRegenerate THEN clamp(regenLeft - 1, 0, 99)
                            ELSE regenLeft,
              seed |-> a.activeSeed]

\* mutation of Outcome: a failed regeneration consumes budget too
OutcomeDecrementOnFailure(a, res) ==
    LET g == Generated(res, a.form, a.activeSeed)
    IN  IF g.threw
        THEN [paper |-> paper, error |-> Some(ErrorMessage(g)),
              regenLeft |-> IF a.isRegenerate THEN clamp(regenLeft - 1, 0, 99)
                            ELSE regenLeft,
              seed |-> seed]
        ELSE [paper |-> Some(g.value[1]), error |-> error,
              regenLeft |-> IF a.isRegenerate THEN clamp(regenLeft - 1, 0, 99)
                            ELSE regenLeft,
              seed |-> IF ~a.isRegenerate THEN a.activeSeed ELSE seed]

\* part_000:488-511: the state handleGenerate leaves once the fetch of
\* attempt a has settled with res
Outcome(a, res) ==
    LET g == Generated(res, a.form, a.activeSeed)
    IN  IF g.threw
        THEN [paper |-> paper, error |-> Some(ErrorMessage(g)),
              regenLeft |-> regenLeft, seed |-> seed]
        ELSE [paper |-> Some(g.value[1]), error |-> error,
              regenLeft |-> IF a.isRegenerate THEN clamp(regenLeft - 1, 0, 99)
                            ELSE regenLeft,
              seed |-> IF ~a.isRegenerate THEN a.activeSeed ELSE seed]

NoEvent == Event("init", FALSE, FALSE, 0, 0, "none")

NoRequest == Request("GET", "invalid", None, None, None)

SessionInit ==
    /\ form = defaultForm
    /\ paper = None
    /\ seed \in Seeds
    /\ regenLeft = RegenBudget
    /\ busy = FALSE
    /\ error = None
    /\ isAuthReady = FALSE
    /\ db \in BOOLEAN
    /\ apiKey \in {"", DefaultKey}
    /\ inflight = {}
    /\ regenSent = 0
    /\ regenOk = 0
    /\ lastEvent = NoEvent

\* no function is stepped on its own
NoCall ==
    /\ xargs = <<>>
    /\ xret = <<>>
    /\ xprev = <<>>
    /\ xpc = "idle"

Init ==
    /\ SessionInit
    /\ serverKey \in {"", "sk-server"}
    /\ hreq = NoRequest
    /\ hpc = "idle"
    /\ hresp = Rejected("")
    /\ hcalls = <<>>
    /\ NoCall

\* part_000:380-425: the auth effect marks the app ready (at once when
\* Firebase is not configured, from the auth listener when it is)
onAuthStateChanged ==
    /\ ~isAuthReady
    /\ isAuthReady' = TRUE
    /\ UNCHANGED <<form, paper, seed, regenLeft, busy, error, db, apiKey, serverKey,
                   inflight, regenSent, regenOk, lastEvent, handlerVars, callVars>>

\* part_000:434-435, from the inputs of part_000:568-616
onChange ==
    \E e \in FormEdits :
        /\ form' = [form EXCEPT ![e[1]] = e[2]]
        /\ form' # form
        /\ UNCHANGED <<paper, seed, regenLeft, busy, error, isAuthReady, db, apiKey,
                       serverKey, inflight, regenSent, regenOk, lastEvent,
                       handlerVars, callVars>>

\* part_000:620, the Seed input
onSeedInput ==
    \E v \in Seeds :
        /\ v # seed
        /\ seed' = v
        /\ UNCHANGED <<form, paper, regenLeft, busy, error, isAuthReady, db, apiKey,
                       serverKey, inflight, regenSent, regenOk, lastEvent,
                       handlerVars, callVars>>

\* a click on a disabled button (part_000:623, 626) reaches no handler
ClickDisabled(isRegenerate) ==
    /\ Disabled(isRegenerate)
    /\ lastEvent' = Event("ignored", isRegenerate, FALSE, 0, 0, "none")
    /\ UNCHANGED <<form, paper, seed, regenLeft, busy, error, isAuthReady, db, apiKey,
                   serverKey, inflight, regenSent, regenOk, handlerVars, callVars>>

\* handleGenerate with setBusy(true) of part_000:438 left out
handleGenerateNeverBusy(isRegenerate) ==
    /\ ~Disabled(isRegenerate)
    /\ isRegenerate => regenSent < MaxRegenRequests
    /\ IF apiKey = ""
       THEN /\ error' = Some(KeyMissing)
            /\ busy' = FALSE
            /\ lastEvent' = Event("nokey", isRegenerate, FALSE, 0, 0, "none")
            /\ UNCHANGED <<inflight, regenSent>>
       ELSE /\ error' = None
            /\ busy' = FALSE
            /\ lastEvent' = Event("started", isRegenerate, FALSE, 0, 0, "none")
            /\ IF db /\ isAuthReady
               THEN /\ inflight' = inflight \cup
                         {Attempt(Cardinality(inflight) + 1, isRegenerate, form, seed,
                                  "log", 0)}
                    /\ UNCHANGED regenSent
               ELSE /\ \E rnd \in Seeds :
                         inflight' = inflight \cup
                             {Attempt(Cardinality(inflight) + 1, isRegenerate, form,
                                      seed, "fetch", IF isRegenerate THEN rnd ELSE seed)}
                    /\ regenSent' = IF isRegenerate THEN regenSent + 1 ELSE regenSent
    /\ UNCHANGED <<form, paper, seed, regenLeft, isAuthReady, db, apiKey, serverKey,
                   regenOk, handlerVars, callVars>>

\* part_000:437-488, from the click to the first await: the key check, then
\* the audit log (await addDoc) when Firestore is there, else straight on to
\* the request
handleGenerate(isRegenerate) ==
    /\ ~Disabled(isRegenerate)
    /\ isRegenerate => regenSent < MaxRegenRequests
    /\ IF apiKey = ""
       THEN /\ error' = Some(KeyMissing)
            /\ busy' = FALSE
            /\ lastEvent' = Event("nokey", isRegenerate, FALSE, 0, 0, "none")
            /\ UNCHANGED <<inflight, regenSent>>
       ELSE /\ error' = None
            /\ busy' = TRUE
            /\ lastEvent' = Event("started", isRegenerate, FALSE, 0, 0, "none")
            /\ IF db /\ isAuthReady
               THEN /\ inflight' = inflight \cup
                         {Attempt(Cardinality(inflight) + 1, isRegenerate, form, seed,
                                  "log", 0)}
                    /\ UNCHANGED regenSent
               ELSE /\ \E rnd \in Seeds :
                         inflight' = inflight \cup
                             {Attempt(Cardinality(inflight) + 1, isRegenerate, form,
                                      seed, "fetch", IF isRegenerate THEN rnd ELSE seed)}
                    /\ regenSent' = IF isRegenerate THEN regenSent + 1 ELSE regenSent
    /\ UNCHANGED <<form, paper, seed, regenLeft, isAuthReady, db, apiKey, serverKey,
                   regenOk, handlerVars, callVars>>

\* part_000:465-488: addDoc resolves or rejects (the catch of part_000:467
\* swallows it); handleGenerate goes on and sends the request
addDocSettled ==
    \E a \in inflight, rnd \in Seeds :
        /\ a.pc = "log"
        /\ inflight' = (inflight \ {a}) \cup
               {[a EXCEPT !.pc = "fetch",
                          !.activeSeed = IF a.isRegenerate THEN rnd ELSE a.seed]}
        /\ regenSent' = IF a.isRegenerate THEN regenSent + 1 ELSE regenSent
        /\ UNCHANGED <<form, paper, seed, regenLeft, busy, error, isAuthReady, db,
                       apiKey, serverKey, regenOk, lastEvent, handlerVars, callVars>>

\* how the fetch of /api/generate can settle for the request req: it fails,
\* or the intermediary answers after the provider replied; with the
\* provider's status when it was called and answered (else 0)
Settlements(req) ==
    { [res |-> r, upstream |-> 0] : r \in ClientFailures }
    \cup { [res |-> handler(req, serverKey, reply),
            upstream |-> IF CallsUpstream(req, serverKey) /\ ~reply.failed
                         THEN reply.status ELSE 0] : reply \in UpstreamReplies }

\* fetchSettled with setBusy(false) at the end of the try block instead of in
\* the finally block
fetchSettledNoFinally ==
    \E a \in inflight :
        /\ a.pc = "fetch"
        /\ \E s \in Settlements(RequestOf(a)) :
            LET out == Outcome(a, s.res)
                ok == out.error = None
            IN  /\ paper' = out.paper
                /\ error' = out.error
                /\ regenLeft' = out.regenLeft
                /\ seed' = out.seed
                /\ busy' = (out.error # None)
                /\ inflight' = inflight \ {a}
                /\ regenOk' = IF ok /\ a.isRegenerate THEN regenOk + 1 ELSE regenOk
                /\ lastEvent' = Event(IF ok THEN "ok" ELSE "fail", a.isRegenerate,
                                      ok /\ a.form # form, s.upstream,
                                      IF s.res.failed THEN 0 ELSE s.res.status,
                                      SectionsKind(callGenerateApi(s.res)))
                /\ UNCHANGED <<form, isAuthReady, db, apiKey, serverKey, regenSent,
                               handlerVars, callVars>>

\* part_000:488-514: the fetch of /api/generate settles and handleGenerate
\* runs to its end
fetchSettled ==
    \E a \in inflight :
        /\ a.pc = "fetch"
        /\ \E s \in Settlements(RequestOf(a)) :
            LET out == Outcome(a, s.res)
                ok == out.error = None
            IN  /\ paper' = out.paper
                /\ error' = out.error
                /\ regenLeft' = out.regenLeft
                /\ seed' = out.seed
                /\ busy' = FALSE
                /\ inflight' = inflight \ {a}
                /\ regenOk' = IF ok /\ a.isRegenerate THEN regenOk + 1 ELSE regenOk
                /\ lastEvent' = Event(IF ok THEN "ok" ELSE "fail", a.isRegenerate,
                                      ok /\ a.form # form, s.upstream,
                                      IF s.res.failed THEN 0 ELSE s.res.status,
                                      SectionsKind(callGenerateApi(s.res)))
                /\ UNCHANGED <<form, isAuthReady, db, apiKey, serverKey, regenSent,
                               handlerVars, callVars>>

Next ==
    \/ onAuthStateChanged
    \/ onChange
    \/ onSeedInput
    \/ \E r \in BOOLEAN : ClickDisabled(r)
    \/ \E r \in BOOLEAN : handleGenerate(r)
    \/ addDocSettled
    \/ fetchSettled

Spec == Init /\ [][Next]_vars

----------------------------------------------------------------------------
(* The intermediary on its own: one exchange per behaviour *)

\* the requests that reach /api/generate in this model
HandlerRequests ==
    { Request(m, k, None, None, None) : m \in {"POST", "GET"}, k \in {"invalid", "null"} }
    \cup { Request(m, "object", p, mo, sd) :
             m \in {"POST", "GET"},
             p \in {None, Some(<<>>), Some(buildPrompt(defaultForm))},
             mo \in {None, Some(modelToUse)},
             sd \in {None} \cup {Some(v) : v \in Seeds} }

\* generate.ts:45-70: the call of the provider, with its Authorization header
UpstreamCall(request, key) ==
    [authorization |-> "Bearer " \o key, model |-> request.model[1],
     prompt |-> request.prompt[1], seed |-> request.seed]

HandlerInit ==
    /\ form = defaultForm
    /\ paper = None
    /\ seed = 0
    /\ regenLeft = RegenBudget
    /\ busy = FALSE
    /\ error = None
    /\ isAuthReady = FALSE
    /\ db = FALSE
    /\ apiKey = DefaultKey
    /\ inflight = {}
    /\ regenSent = 0
    /\ regenOk = 0
    /\ lastEvent = NoEvent
    /\ serverKey \in {"", "sk-server"}
    /\ hreq \in HandlerRequests
    /\ hpc = "received"
    /\ hresp = Rejected("")
    /\ hcalls = <<>>
    /\ NoCall

\* generate.ts:11-70: the handler runs up to its return, its escaped
\* exception, or its call of the provider
handlerEntered ==
    /\ hpc = "received"
    /\ LET pre == handlerBeforeFetch(hreq, serverKey)
       IN  IF pre.threw
           THEN /\ hpc' = "threw"
                /\ hresp' = pre.response
                /\ UNCHANGED hcalls
           ELSE IF pre.done
           THEN /\ hpc' = "responded"
                /\ hresp' = pre.response
                /\ UNCHANGED hcalls
           ELSE /\ hpc' = "fetching"
                /\ hcalls' = Append(hcalls, UpstreamCall(hreq, serverKey))
                /\ UNCHANGED hresp
    /\ UNCHANGED <<sessionVars, serverKey, hreq, callVars>>

\* generate.ts:72-91: the call of the provider settles
handlerFetchSettled ==
    /\ hpc = "fetching"
    /\ \E reply \in UpstreamReplies : hresp' = handlerAfterFetch(reply)
    /\ hpc' = "responded"
    /\ UNCHANGED <<sessionVars, serverKey, hreq, hcalls, callVars>>

HandlerNext ==
    \/ handlerEntered
    \/ handlerFetchSettled

SpecHandler == HandlerInit /\ [][HandlerNext]_vars

----------------------------------------------------------------------------
(* Steps of handleGenerate, told from the invocations in flight *)

\* an invocation of handleGenerate begins in this step
Starts == \E a \in inflight' : \A b \in inflight : b.id # a.id

\* invocation a runs to its end in this step
Completes(a) == a \in inflight /\ a.pc = "fetch" /\ a \notin inflight'

\* a click on the disabled button r happens in this step
IgnoredClick(r) ==
    /\ lastEvent' # lastEvent
    /\ lastEvent'.kind = "ignored"
    /\ lastEvent'.isRegenerate = r

\* the metadata of the stored paper
Metadata(p) == p[1].metadata

ConfigurationError == Response(Text("Error: Server configuration error"), 500)

\* the request passes the checks of generate.ts:13-29
WellFormed(request) ==
    /\ request.method = "POST"
    /\ request.json = "object"
    /\ ~FalsyPrompt(request.prompt)
    /\ ~FalsyModel(request.model)

----------------------------------------------------------------------------
(* Text: a string is the sequence of its characters *)

\* the characters that /\s/ matches and trim() strips, as far as this model
\* has them: space, tab, line feed and U+00A0
WhiteSpace == {" ", "\t", "\n", "U+00A0"}

IsSpace(ch) == ch \in WhiteSpace

RECURSIVE TrimStart(_)
\* String.prototype.trimStart
TrimStart(str) ==
    IF str # <<>> /\ IsSpace(Head(str)) THEN TrimStart(Tail(str)) ELSE str

RECURSIVE TrimEnd(_)
\* String.prototype.trimEnd
TrimEnd(str) ==
    IF str # <<>> /\ IsSpace(str[Len(str)])
    THEN TrimEnd(SubSeq(str, 1, Len(str) - 1))
    ELSE str

\* String.prototype.trim, part_000:113-120
trim(str) == TrimEnd(TrimStart(str))

\* part_000:109, text.split(/\s+/): the words are the runs of characters that
\* are no whitespace, in order; whitespace at the start of the text (or an
\* empty text) gives an empty first word, whitespace at its end an empty last
\* word
split(text) ==
    LET positions == [i \in 1..Len(text) |-> i]
        starts == SelectSeq(positions,
                      LAMBDA i : ~IsSpace(text[i]) /\ (i = 1 \/ IsSpace(text[i - 1])))
        ends == SelectSeq(positions,
                    LAMBDA i : /\ ~IsSpace(text[i])
                               /\ (i = Len(text) \/ IsSpace(text[i + 1])))
        first == IF text = <<>> \/ IsSpace(text[1]) THEN << <<>> >> ELSE <<>>
        last == IF text # <<>> /\ IsSpace(text[Len(text)]) THEN << <<>> >> ELSE <<>>
    IN  first \o [k \in 1..Len(starts) |-> SubSeq(text, starts[k], ends[k])] \o last

RECURSIVE wrapLoopDropsWord(_, _, _, _)
\* the loop of wrapText with line = "" in place of line = w at part_000:115
wrapLoopDropsWord(words, line, lines, maxChars) ==
    IF words = <<>>
    THEN IF line # <<>> THEN Append(lines, trim(line)) ELSE lines
    ELSE LET w == Head(words)
             joined == trim(line \o <<" ">> \o w)
         IN  IF Len(joined) > maxChars
             THEN wrapLoopDropsWord(Tail(words), <<>>, Append(lines, trim(line)),
                                    maxChars)
             ELSE wrapLoopDropsWord(Tail(words), joined, lines, maxChars)

wrapTextDropsWord(text, maxChars) ==
    wrapLoopDropsWord(split(text), <<>>, <<>>, maxChars)

RECURSIVE wrapLoopBreaksEarly(_, _, _, _)
\* the loop of wrapText with >= in place of > at part_000:113
wrapLoopBreaksEarly(words, line, lines, maxChars) ==
    IF words = <<>>
    THEN IF line # <<>> THEN Append(lines, trim(line)) ELSE lines
    ELSE LET w == Head(words)
             joined == trim(line \o <<" ">> \o w)
         IN  IF Len(joined) >= maxChars
             THEN wrapLoopBreaksEarly(Tail(words), w, Append(lines, trim(line)),
                                      maxChars)
             ELSE wrapLoopBreaksEarly(Tail(words), joined, lines, maxChars)

wrapTextBreaksEarly(text, maxChars) ==
    wrapLoopBreaksEarly(split(text), <<>>, <<>>, maxChars)

RECURSIVE wrapLoop(_, _, _, _)
\* part_000:112-120: the for loop over the words left, with the line being
\* filled and the lines pushed so far, then the flush of the last line
wrapLoop(words, line, lines, maxChars) ==
    IF words = <<>>
    THEN IF line # <<>> THEN Append(lines, trim(line)) ELSE lines
    ELSE LET w == Head(words)
             joined == trim(line \o <<" ">> \o w)
         IN  IF Len(joined) > maxChars
             THEN wrapLoop(Tail(words), w, Append(lines, trim(line)), maxChars)
             ELSE wrapLoop(Tail(words), joined, lines, maxChars)

\* part_000:107-122
wrapText(text, maxChars) == wrapLoop(split(text), <<>>, <<>>, maxChars)

----------------------------------------------------------------------------
(* wrapText on its own: one call per behaviour *)

\* length of the texts handed to wrapText on its own
MaxTextLen == 5

\* their characters: two letters and two kinds of whitespace
Alphabet == {"a", "b", " ", "\t"}

\* the widths (maxChars) handed to wrapText on its own
Widths == {1, 2, 3}

Texts == UNION { [1..n -> Alphabet] : n \in 0..MaxTextLen }

\* "word " repeated n times
RepeatedWord(n) == [i \in 1..(5 * n) |-> <<"w", "o", "r", "d", " ">>[((i - 1) % 5) + 1]]

\* the default width of part_000:107 with texts of repeated "word " tokens
\* that fill one line, just overflow it, and fill several
DefaultWidthCalls ==
    { [text |-> RepeatedWord(n), maxChars |-> 92] : n \in {18, 19, 60} }

\* the session and the intermediary stand still while a function is stepped
\* on its own
Parked ==
    /\ form = defaultForm
    /\ paper = None
    /\ seed = 0
    /\ regenLeft = RegenBudget
    /\ busy = FALSE
    /\ error = None
    /\ isAuthReady = FALSE
    /\ db = FALSE
    /\ apiKey = DefaultKey
    /\ inflight = {}
    /\ regenSent = 0
    /\ regenOk = 0
    /\ lastEvent = NoEvent
    /\ serverKey = ""
    /\ hreq = NoRequest
    /\ hpc = "idle"
    /\ hresp = Rejected("")
    /\ hcalls = <<>>

WrapInit ==
    /\ Parked
    /\ xargs \in { [text |-> t, maxChars |-> w] : t \in Texts, w \in Widths }
                \cup DefaultWidthCalls
    /\ xret = <<>>
    /\ xprev = <<>>
    /\ xpc = "ready"

\* part_000:107-122: the call returns its lines
wrapTextReturns ==
    /\ xpc = "ready"
    /\ xret' = wrapText(xargs.text, xargs.maxChars)
    /\ xpc' = "done"
    /\ UNCHANGED <<sessionVars, serverKey, handlerVars, xargs, xprev>>

WrapNext == wrapTextReturns

SpecWrap == WrapInit /\ [][WrapNext]_vars

----------------------------------------------------------------------------
(* buildPrompt on its own: one call per behaviour *)

\* the blueprints handed to buildPrompt on its own: the default form with
\* some of its fields changed, extraInstructions empty or not
Blueprints ==
    { [defaultForm EXCEPT !.board = b, !.difficulty = d,
                          !.counts = [@ EXCEPT !.mcq = n],
                          !.extraInstructions = x] :
        b \in {"CBSE", "ICSE"}, d \in {"easy", "medium", "hard"},
        n \in {0, 5, 50},
        x \in {"", "Focus on NCERT.", defaultForm.extraInstructions} }

PromptInit ==
    /\ Parked
    /\ xargs \in Blueprints
    /\ xret = <<>>
    /\ xprev = <<>>
    /\ xpc = "ready"

\* part_000:287-333: the call returns the prompt
buildPromptReturns ==
    /\ xpc = "ready"
    /\ xret' = buildPrompt(xargs)
    /\ xpc' = "done"
    /\ UNCHANGED <<sessionVars, serverKey, handlerVars, xargs, xprev>>

PromptNext == buildPromptReturns

SpecPrompt == PromptInit /\ [][PromptNext]_vars

\* the lines of prompt without the k-th
WithoutLine(prompt, k) ==
    SubSeq(prompt, 1, k - 1) \o SubSeq(prompt, k + 1, Len(prompt))

----------------------------------------------------------------------------
(* The document export: exportToPDF against a sink that records the calls.
   Lengths are in hundredths of a point. *)

\* hundredths of a point in a point
Pt == 100

\* part_000:153, jsPDF({unit: "pt", format: "a4"}): 595.28 x 841.89 points
pageWidth == 59528

pageHeight == 84189

\* part_000:155
marginX == 48 * Pt

\* part_000:158
lineHeight == 18 * Pt

\* part_000:156, let y = 64 with the cursor the call before left in its place
CursorCarried == IF xpc.at = "ready" THEN 64 * Pt ELSE xret.y

\* part_000:156, let y = 64
CursorStart == 64 * Pt

\* characters that this model writes by their code points: the bullet, the
\* em dash and the integral sign
Bullet == "U+2022"

EmDash == "U+2014"

\* the decimal digits
DigitChars == <<"0", "1", "2", "3", "4", "5", "6", "7", "8", "9">>

RECURSIVE Digits(_)
\* a natural number in a template literal: its decimal digits
Digits(n) ==
    IF n < 10 THEN <<DigitChars[n + 1]>>
    ELSE Digits(n \div 10) \o <<DigitChars[(n % 10) + 1]>>

\* String.fromCharCode(c) where c - 1 is used in place of c
FromCharCodeOffByOne(c) ==
    IF c - 1 \in 65..90
    THEN <<"A", "B", "C", "D", "E", "F", "G", "H", "I", "J", "K", "L", "M", "N",
           "O", "P", "Q", "R", "S", "T", "U", "V", "W", "X", "Y", "Z">>[c - 65]
    ELSE IF c - 1 = 160 THEN "U+00A0"
    ELSE "char " \o ToString(c - 1)

\* part_000:226, String.fromCharCode(c) for c from 65 on: the capital
\* letters, then characters written here by their code, of which 160
\* (U+00A0, no-break space) is whitespace
FromCharCode(c) ==
    IF c \in 65..90
    THEN <<"A", "B", "C", "D", "E", "F", "G", "H", "I", "J", "K", "L", "M", "N",
           "O", "P", "Q", "R", "S", "T", "U", "V", "W", "X", "Y", "Z">>[c - 64]
    ELSE IF c = 160 THEN "U+00A0"
    ELSE "char " \o ToString(c)

\* part_000:207, q.type.toUpperCase() for the values of QuestionType
toUpperCase(type) ==
    CASE type = "mcq" -> <<"M", "C", "Q">>
      [] type = "short" -> <<"S", "H", "O", "R", "T">>
      [] type = "long" -> <<"L", "O", "N", "G">>
      [] type = "numerical" -> <<"N", "U", "M", "E", "R", "I", "C", "A", "L">>

\* the clock readings of this model, in milliseconds
Clock == {0, 3600000}

\* part_000:243, new Date().toLocaleString() (en-US, UTC) at those readings
toLocaleString(now) ==
    IF now = 0
    THEN <<"1", "/", "1", "/", "1", "9", "7", "0", ",", " ",
           "1", "2", ":", "0", "0", ":", "0", "0", " ", "A", "M">>
    ELSE <<"1", "/", "1", "/", "1", "9", "7", "0", ",", " ",
           "1", ":", "0", "0", ":", "0", "0", " ", "A", "M">>

\* part_000:245, doc.getTextWidth: the advances of the glyphs at the font
\* size in use, every glyph taken as half an em wide
getTextWidth(str, fontSize) == (Len(str) * fontSize) \div 2

\* part_000:250, docTitle.replace(/\s+/g, "_")
replaceSpaces(str) ==
    LET marked == [i \in 1..Len(str) |->
                      [ch |-> IF IsSpace(str[i]) THEN "_" ELSE str[i],
                       first |-> ~IsSpace(str[i]) \/ i = 1 \/ ~IsSpace(str[i - 1])]]
        kept == SelectSeq(marked, LAMBDA m : m.first)
    IN  [k \in 1..Len(kept) |-> kept[k].ch]

\* part_000:153, new jsPDF(...): page 1, Helvetica normal at 16 points, and
\* no call recorded; y is the cursor of exportToPDF (part_000:156)
jsPDF(cursor) ==
    [calls |-> <<>>, page |-> 1, fontSize |-> 16 * Pt, fontStyle |-> "normal",
     y |-> cursor]

\* a call of the sink: its primitive, the part of the paper it comes from
\* (role; section si, question qi, option oi, 0 for none), and for a text
\* its characters, place, page and font
Call(op, role, si, qi, oi, str, x, yy, pg, fontSize, fontStyle) ==
    [op |-> op, role |-> role, si |-> si, qi |-> qi, oi |-> oi, text |-> str,
     x |-> x, y |-> yy, page |-> pg, fontSize |-> fontSize, fontStyle |-> fontStyle]

\* doc.setFont("Helvetica", style)
setFont(d, style) == [d EXCEPT !.fontStyle = style]

\* doc.setFontSize(size)
setFontSize(d, size) == [d EXCEPT !.fontSize = size * Pt]

\* doc.text(str, x, yy) with the call recorded before those made so far
docTextPrepended(d, role, si, qi, oi, str, x, yy) ==
    [d EXCEPT !.calls = <<Call("text", role, si, qi, oi, str, x, yy,
                               d.page, d.fontSize, d.fontStyle)>> \o @]

\* doc.text(str, x, yy), drawn on the current page in the current font
docText(d, role, si, qi, oi, str, x, yy) ==
    [d EXCEPT !.calls = Append(@, Call("text", role, si, qi, oi, str, x, yy,
                                       d.page, d.fontSize, d.fontStyle))]

\* y += dy
advance(d, dy) == [d EXCEPT !.y = @ + dy]

\* part_000:174-180 with a footer drawn on the page that is left
addPageIfNeededWithFooter(d, needed) ==
    IF d.y + needed > pageHeight - 64 * Pt
    THEN [d EXCEPT !.calls = @ \o
                       << Call("text", "footer", 0, 0, 0, <<"G", "e", "n">>,
                               marginX, pageHeight - 24 * Pt, d.page, d.fontSize,
                               d.fontStyle),
                          Call("addPage", "addPage", 0, 0, 0, <<>>, 0, 0,
                               d.page + 1, d.fontSize, d.fontStyle) >>,
                   !.page = @ + 1,
                   !.y = 64 * Pt]
    ELSE d

\* part_000:174-180 with the bottom margin of part_000:176 left out
addPageIfNeededNoMargin(d, needed) ==
    IF d.y + needed > pageHeight
    THEN [d EXCEPT !.calls = Append(@, Call("addPage", "addPage", 0, 0, 0, <<>>, 0, 0,
                                            d.page + 1, d.fontSize, d.fontStyle)),
                   !.page = @ + 1,
                   !.y = 64 * Pt]
    ELSE d

\* part_000:174-180
addPageIfNeeded(d, needed) ==
    IF d.y + needed > pageHeight - 64 * Pt
    THEN [d EXCEPT !.calls = Append(@, Call("addPage", "addPage", 0, 0, 0, <<>>, 0, 0,
                                            d.page + 1, d.fontSize, d.fontStyle)),
                   !.page = @ + 1,
                   !.y = 64 * Pt]
    ELSE d

RECURSIVE drawLines(_, _, _, _, _, _, _)
\* part_000:194-198, 218-222, 228-232: each line is drawn at x after
\* addPageIfNeeded(lineHeight), and the cursor moves down by lineHeight
drawLines(d, lines, role, si, qi, oi, x) ==
    IF lines = <<>> THEN d
    ELSE LET fits == addPageIfNeeded(d, lineHeight)
         IN  drawLines(advance(docText(fits, role, si, qi, oi, Head(lines), x, fits.y),
                               lineHeight),
                       Tail(lines), role, si, qi, oi, x)

\* an optional string or array is truthy (its length, for an array): it is
\* there and it is not empty
Truthy(opt) == opt # None /\ Len(opt[1]) > 0

\* an optional number is truthy: it is there and it is not 0
TruthyNumber(opt) == opt # None /\ opt[1] # 0

\* part_000:71-79, a Question (id and answer are not drawn)
Question(type, str, options, marks, difficulty) ==
    [type |-> type, text |-> str, options |-> options, marks |-> marks,
     difficulty |-> difficulty]

\* part_000:94-98, a section
Section(title, instructions, questions) ==
    [title |-> title, instructions |-> instructions, questions |-> questions]

\* a word of n characters
Word(n) == [i \in 1..n |-> "x"]

\* three words of n characters
ThreeWords(n) == Word(n) \o <<" ">> \o Word(n) \o <<" ">> \o Word(n)

\* a question that takes one body line
Filler == Question("short", <<"w", "o", "r", "d">>, None, None, None)

Capitals == << <<"P", "a", "r", "i", "s">>, <<"L", "o", "n", "d", "o", "n">>,
               <<"R", "o", "m", "e">>, <<"B", "e", "r", "l", "i", "n">> >>

\* the questions that end the sections of this model: bodies of one and of
\* three lines, with and without marks and difficulty; mcq questions with
\* four options, with none, with an empty list, with 96 options (the last
\* of which has the label of character code 160) and with an option of two
\* lines; options on a question that is no mcq; a body that starts with
\* whitespace; a body whose first word is longer than a line
LastQuestions ==
    { Question("long", ThreeWords(60), None, Some(5), Some(<<"h", "a", "r", "d">>)),
      Question("short", <<"W", "h", "y", "?">>, None, Some(0), Some(<<>>)),
      Question("mcq", <<"W", "h", "a", "t", " ", "i", "s", " ", "x", "?">>,
               Some(Capitals), Some(1), Some(<<"e", "a", "s", "y">>)),
      Question("mcq", <<"W", "h", "i", "c", "h", "?">>, None, None, None),
      Question("mcq", <<"W", "h", "i", "c", "h", "?">>, Some(<<>>), None, None),
      Question("mcq", <<"W", "h", "i", "c", "h", "?">>,
               Some([i \in 1..96 |-> <<"o">>]), None, None),
      Question("mcq", <<"W", "h", "i", "c", "h", "?">>,
               Some(<< <<"a">>, Word(50) \o <<" ">> \o Word(50) >>), None, None),
      Question("short", <<"W", "h", "y", "?">>, Some(Capitals), None, None),
      Question("long", <<" ", " ">> \o ThreeWords(40), None, None, None),
      Question("numerical", Word(100) \o <<" ", "=", " ", "?">>, None, None, None) }

\* part_000:82-92, the metadata the export prints
ExportMetadata ==
    [board |-> <<"C", "B", "S", "E">>,
     grade |-> <<"C", "l", "a", "s", "s", " ", "1", "2">>,
     subject |-> <<"M", "a", "t", "h", "s">>,
     topic |-> <<"I", "n", "t", "e", "g", "r", "a", "t", "i", "o", "n">>,
     timeLimitMinutes |-> Some(180), totalMarks |-> None]

\* part_000:81-100, a paper of type PaperJSON
PaperJSON(sections) ==
    [metadata |-> ExportMetadata, structure |-> [sections |-> sections]]

\* a paper of two sections, the second with instructions of two lines and
\* with no question
TwoSections ==
    PaperJSON(<< Section(<<"A">>, Some(<<>>), <<Filler>>),
                 Section(<<"B">>, Some(ThreeWords(40)), <<>>) >>)

\* an mcq question with two options
TwoOptions ==
    Question("mcq", <<"W", "h", "i", "c", "h", "?">>, Some(<< <<"a">>, <<"b">> >>),
             None, None)

\* papers of two sections: the first of 13 or 14 one-line questions (after
\* 14 of them the header of the second section does not fit on page 1, after
\* 13 it does and the second line of its instructions does not); a paper
\* whose section has instructions of whitespace alone; a paper with
\* instructions, questions and options in both sections
SectionPapers ==
    { PaperJSON(<< Section(<<"A">>, None, [i \in 1..n |-> Filler]),
                   Section(<<"B">>, Some(ThreeWords(40)), <<Filler>>) >>) :
        n \in {13, 14} }
    \cup { PaperJSON(<< Section(<<"A">>, Some(<<" ", " ">>), <<Filler>>) >>),
           PaperJSON(<< Section(<<"A">>, Some(<<"A", "l", "l", ".">>),
                                <<TwoOptions, Filler>>),
                        Section(<<"B">>, Some(ThreeWords(40)),
                                <<Filler, TwoOptions>>) >>) }

\* the papers exported in this model: one section of 0, 13 or 14 one-line
\* questions and a last question (after 13 of them the header of the last
\* question fits on page 1 with two body lines, after 14 it does not), and
\* the papers of two sections
Papers ==
    { PaperJSON(<< Section(<<"A">>, None, [i \in 1..n |-> Filler] \o <<q>>) >>) :
        n \in {0, 13, 14}, q \in LastQuestions }
    \cup {TwoSections}
    \cup SectionPapers

\* the most questions in a section of these papers
MaxQuestions == 15

\* part_000:519, the title handleDownloadPDF hands over
docTitleOf(pj) ==
    pj.metadata.subject \o <<" ">> \o pj.metadata.grade \o <<" ", EmDash, " ">>
        \o pj.metadata.topic

\* where exportToPDF stands: before the call ("ready"), at the head of
\* section si ("section"), of its question qi ("question"), of the option
\* oi of that question ("option"), at the footer, or after save ("done");
\* and the number of calls made so far
Position(at, si, qi, oi, runs) ==
    [at |-> at, si |-> si, qi |-> qi, oi |-> oi, runs |-> runs]

\* how often one paper is exported
MaxExports == 2

\* no document yet
NoDoc == [calls |-> <<>>, page |-> 0, fontSize |-> 0, fontStyle |-> "", y |-> 0]

ExportInit ==
    /\ Parked
    /\ \E pj \in Papers : xargs = [docTitle |-> docTitleOf(pj), paper |-> pj]
    /\ xret = NoDoc
    /\ xprev = <<>>
    /\ xpc = Position("ready", 0, 0, 0, 0)

\* part_000:239-240: the end of section si moves the cursor; the next
\* section follows, or the footer
AfterSection(d, si) ==
    [doc |-> advance(d, 8 * Pt),
     pc |-> IF si < Len(xargs.paper.structure.sections)
            THEN Position("section", si + 1, 0, 0, xpc.runs)
            ELSE Position("footer", 0, 0, 0, xpc.runs)]

\* part_000:236-237: the end of question qi of section si moves the cursor;
\* the next question follows, or the end of the section
AfterQuestion(d, si, qi) ==
    IF qi < Len(xargs.paper.structure.sections[si].questions)
    THEN [doc |-> advance(d, 8 * Pt), pc |-> Position("question", si, qi + 1, 0, xpc.runs)]
    ELSE AfterSection(advance(d, 8 * Pt), si)

\* part_000:141-172 and 183: the call makes the document and draws the title
\* and the two metadata lines
exportToPDFCalled ==
    /\ xpc.at = "ready" \/ (xpc.at = "done" /\ xpc.runs < MaxExports)
    /\ LET md == xargs.paper.metadata
           metaLine == <<"B", "o", "a", "r", "d", ":", " ">> \o md.board
                       \o <<" ", " ", "|", " ", " ", "G", "r", "a", "d", "e", ":", " ">>
                       \o md.grade
                       \o <<" ", " ", "|", " ", " ",
                            "S", "u", "b", "j", "e", "c", "t", ":", " ">>
                       \o md.subject
           topicLine == <<"T", "o", "p", "i", "c", ":", " ">> \o md.topic
                        \o <<" ", " ", "|", " ", " ", "T", "i", "m", "e", ":", " ">>
                        \o (IF md.timeLimitMinutes = None THEN <<EmDash>>
                            ELSE Digits(md.timeLimitMinutes[1]))
                        \o <<" ", "m", "i", "n", " ", " ", "|", " ", " ",
                             "M", "a", "r", "k", "s", ":", " ">>
                        \o (IF md.totalMarks = None THEN <<EmDash>>
                            ELSE Digits(md.totalMarks[1]))
           d0 == setFontSize(setFont(jsPDF(CursorStart), "bold"), 18)
           d1 == advance(docText(d0, "title", 0, 0, 0, xargs.docTitle, marginX, d0.y),
                         24 * Pt)
           d2 == setFont(setFontSize(d1, 11), "normal")
           d3 == advance(docText(d2, "meta", 0, 0, 0, metaLine, marginX, d2.y), 16 * Pt)
           d4 == advance(docText(d3, "meta", 0, 0, 0, topicLine, marginX, d3.y), 24 * Pt)
       IN  /\ xret' = d4
           /\ xprev' = IF xpc.at = "done" THEN xret.calls ELSE <<>>
           /\ xpc' = IF xargs.paper.structure.sections = <<>>
                     THEN Position("footer", 0, 0, 0, xpc.runs + 1)
                     ELSE Position("section", 1, 0, 0, xpc.runs + 1)
    /\ UNCHANGED <<sessionVars, serverKey, handlerVars, xargs>>

\* part_000:183-205: the header of a section and its instructions
sectionBegun ==
    /\ xpc.at = "section"
    /\ LET si == xpc.si
           sec == xargs.paper.structure.sections[si]
           d0 == setFontSize(setFont(addPageIfNeeded(xret, 40 * Pt), "bold"), 14)
           d1 == advance(docText(d0, "section", si, 0, 0,
                                 Digits(si) \o <<".", " ">> \o sec.title, marginX, d0.y),
                         22 * Pt)
           d2 == IF Truthy(sec.instructions)
                 THEN advance(drawLines(setFontSize(setFont(d1, "italic"), 11),
                                        wrapText(sec.instructions[1], 96),
                                        "instruction", si, 0, 0, marginX),
                              4 * Pt)
                 ELSE d1
           d3 == setFontSize(setFont(d2, "normal"), 12)
           next == IF sec.questions = <<>> THEN AfterSection(d3, si)
                   ELSE [doc |-> d3, pc |-> Position("question", si, 1, 0, xpc.runs)]
       IN  /\ xret' = next.doc
           /\ xpc' = next.pc
    /\ UNCHANGED <<sessionVars, serverKey, handlerVars, xargs, xprev>>

\* part_000:205-224: the header of a question and the lines of its body
questionBegun ==
    /\ xpc.at = "question"
    /\ LET si == xpc.si
           qi == xpc.qi
           q == xargs.paper.structure.sections[si].questions[qi]
           header == Digits(si) \o <<".">> \o Digits(qi) \o <<")", " ", "[">>
                     \o toUpperCase(q.type)
                     \o (IF TruthyNumber(q.marks)
                         THEN <<" ", Bullet, " ">> \o Digits(q.marks[1])
                              \o <<" ", "m", "a", "r", "k", "s">>
                         ELSE <<>>)
                     \o (IF Truthy(q.difficulty)
                         THEN <<" ", Bullet, " ">> \o q.difficulty[1]
                         ELSE <<>>)
                     \o <<"]">>
           d0 == setFont(addPageIfNeeded(xret, lineHeight * 2), "bold")
           d1 == advance(docText(d0, "header", si, qi, 0, header, marginX, d0.y),
                         lineHeight)
           d2 == setFontSize(setFont(d1, "normal"), 12)
           d3 == drawLines(d2, wrapText(q.text, 96), "body", si, qi, 0, marginX)
           next == IF q.type = "mcq" /\ Truthy(q.options)
                   THEN [doc |-> d3, pc |-> Position("option", si, qi, 1, xpc.runs)]
                   ELSE AfterQuestion(d3, si, qi)
       IN  /\ xret' = next.doc
           /\ xpc' = next.pc
    /\ UNCHANGED <<sessionVars, serverKey, handlerVars, xargs, xprev>>

\* part_000:225-233: the lines of one option
optionDrawn ==
    /\ xpc.at = "option"
    /\ LET si == xpc.si
           qi == xpc.qi
           oi == xpc.oi
           options == xargs.paper.structure.sections[si].questions[qi].options[1]
           optText == <<FromCharCode(65 + (oi - 1)), ".", " ">> \o options[oi]
           d1 == drawLines(xret, wrapText(optText, 90), "option", si, qi, oi,
                           marginX + 18 * Pt)
           next == IF oi < Len(options)
                   THEN [doc |-> d1, pc |-> Position("option", si, qi, oi + 1, xpc.runs)]
                   ELSE AfterQuestion(d1, si, qi)
       IN  /\ xret' = next.doc
           /\ xpc' = next.pc
    /\ UNCHANGED <<sessionVars, serverKey, handlerVars, xargs, xprev>>

\* part_000:242-250: the footer, with the time of the clock, and save
footerDrawn ==
    /\ xpc.at = "footer"
    /\ \E now \in Clock :
         LET footer == <<"G", "e", "n", "e", "r", "a", "t", "e", "d", " ", "b", "y", " ",
                         "Q", "P", "a", "p", "e", "r", " ", "F", "o", "r", "g", "e", " ",
                         Bullet, " ">> \o toLocaleString(now)
             textWidth == getTextWidth(footer, xret.fontSize)
             d1 == setFontSize(xret, 9)
             d2 == docText(d1, "footer", 0, 0, 0, footer,
                           pageWidth - textWidth - marginX, pageHeight - 24 * Pt)
             d3 == [d2 EXCEPT !.calls =
                       Append(@, Call("save", "save", 0, 0, 0,
                                      replaceSpaces(xargs.docTitle)
                                          \o <<".", "p", "d", "f">>,
                                      0, 0, d2.page, d2.fontSize, d2.fontStyle))]
         IN  xret' = d3
    /\ xpc' = Position("done", 0, 0, 0, xpc.runs)
    /\ UNCHANGED <<sessionVars, serverKey, handlerVars, xargs, xprev>>

ExportNext ==
    \/ exportToPDFCalled
    \/ sectionBegun
    \/ questionBegun
    \/ optionDrawn
    \/ footerDrawn

SpecExport == ExportInit /\ [][ExportNext]_vars

----------------------------------------------------------------------------
(* What the properties of the export are told in *)

\* the calls of the run that has ended
Drawn == xret.calls

\* the run of exportToPDF has reached its end
ExportDone == xpc.at = "done"

\* the places in the calls cs where a text of one of the roles is drawn
TextsOf(cs, roles) == { k \in 1..Len(cs) : cs[k].op = "text" /\ cs[k].role \in roles }

\* the character with the code c (65 to 160), as the properties name it
CharOfCode(c) ==
    CASE c = 65 -> "A" [] c = 66 -> "B" [] c = 67 -> "C" [] c = 68 -> "D"
      [] c = 69 -> "E" [] c = 70 -> "F" [] c = 71 -> "G" [] c = 72 -> "H"
      [] c = 73 -> "I" [] c = 74 -> "J" [] c = 75 -> "K" [] c = 76 -> "L"
      [] c = 77 -> "M" [] c = 78 -> "N" [] c = 79 -> "O" [] c = 80 -> "P"
      [] c = 81 -> "Q" [] c = 82 -> "R" [] c = 83 -> "S" [] c = 84 -> "T"
      [] c = 85 -> "U" [] c = 86 -> "V" [] c = 87 -> "W" [] c = 88 -> "X"
      [] c = 89 -> "Y" [] c = 90 -> "Z" [] c = 160 -> "U+00A0"
      [] OTHER -> "char " \o ToString(c)

\* the mcq questions of the exported paper that have options, as <<si, qi>>
McqWithOptions ==
    { sq \in { <<si, qi>> : si \in 1..Len(xargs.paper.structure.sections),
                            qi \in 1..MaxQuestions } :
        /\ sq[2] <= Len(xargs.paper.structure.sections[sq[1]].questions)
        /\ LET q == xargs.paper.structure.sections[sq[1]].questions[sq[2]]
           IN  q.type = "mcq" /\ Truthy(q.options) }

\* the options of question <<si, qi>>
OptionsOf(sq) == xargs.paper.structure.sections[sq[1]].questions[sq[2]].options[1]

\* the places in the calls where a line of option oi of question sq is drawn
OptionLines(sq, oi) ==
    { k \in TextsOf(Drawn, {"option"}) :
        Drawn[k].si = sq[1] /\ Drawn[k].qi = sq[2] /\ Drawn[k].oi = oi }

\* the option oi of question sq is drawn with the label of code 65 + oi - 1:
\* its lines come after those of the options before it, and its first line
\* begins with that character and "."
Lettered(sq, oi) ==
    /\ OptionLines(sq, oi) # {}
    /\ \A k \in OptionLines(sq, oi) :
         \A o \in 1..(oi - 1) : \A j \in OptionLines(sq, o) : j < k
    /\ LET first == CHOOSE k \in OptionLines(sq, oi) :
                        \A j \in OptionLines(sq, oi) : k <= j
       IN  /\ Len(Drawn[first].text) >= 2
           /\ Drawn[first].text[1] = CharOfCode(65 + oi - 1)
           /\ Drawn[first].text[2] = "."

\* a second run over the same paper has ended: xprev holds the calls of the
\* run before it
SecondRunDone == ExportDone /\ xpc.runs >= 2

\* the pages of the document of the run that has ended
LastPage == xret.page

\* the roles of the blocks that exportToPDF places with addPageIfNeeded
BlockRoles == {"section", "instruction", "header", "body", "option"}

\* the height handed to addPageIfNeeded before a block of the role
\* (part_000:184, 195, 209, 219, 229)
Needed(role) ==
    CASE role = "section" -> 40 * Pt
      [] role = "header" -> lineHeight * 2
      [] OTHER -> lineHeight

\* the place in the calls of the text drawn last before place k
PrevText(k) ==
    CHOOSE j \in 1..(k - 1) :
        /\ Drawn[j].op = "text"
        /\ \A i \in (j + 1)..(k - 1) : Drawn[i].op # "text"

\* how far the cursor moves between the drawing of the text prev and the
\* page check of the block cur that is drawn next (part_000:172, 188,
\* 197-199, 212, 221, 231, 236, 239)
Gap(prev, cur) ==
    LET inQuestion == prev.role \in {"header", "body", "option"}
        inHead == prev.role \in {"section", "instruction"}
        own == CASE prev.role = "meta" -> 24 * Pt
                 [] prev.role = "section" -> 22 * Pt
                 [] OTHER -> lineHeight
        afterInstructions ==
            IF /\ inHead
               /\ cur.role # "instruction"
               /\ Truthy(xargs.paper.structure.sections[prev.si].instructions)
            THEN 4 * Pt ELSE 0
        afterQuestion ==
            IF inQuestion /\ cur.role \in {"header", "section"} THEN 8 * Pt ELSE 0
        afterSection ==
            IF (inQuestion \/ inHead) /\ cur.role = "section" THEN 8 * Pt ELSE 0
    IN  own + afterInstructions + afterQuestion + afterSection

\* the questions of the exported paper, as <<si, qi>>
QuestionsOf ==
    { sq \in { <<si, qi>> : si \in 1..Len(xargs.paper.structure.sections),
                            qi \in 1..MaxQuestions } :
        sq[2] <= Len(xargs.paper.structure.sections[sq[1]].questions) }

\* the places in the calls where an instruction line of section si is drawn
InstructionLines(si) ==
    { k \in TextsOf(Drawn, {"instruction"}) : Drawn[k].si = si }

\* the places in the calls where an option line of question sq is drawn
OptionLinesOf(sq) ==
    { k \in TextsOf(Drawn, {"option"}) : Drawn[k].si = sq[1] /\ Drawn[k].qi = sq[2] }

\* where a block stands in the paper: its section, its question (0 for the
\* head of the section), its part (header, then instruction or body lines,
\* then options) and its option
PlaceOf(c) ==
    <<c.si, c.qi,
      CASE c.role \in {"section", "header"} -> 0
        [] c.role \in {"instruction", "body"} -> 1
        [] OTHER -> 2,
      c.oi>>

\* the place p comes no later than the place q, in the order of the paper
NoLater(p, q) ==
    \/ p[1] < q[1]
    \/ p[1] = q[1] /\ p[2] < q[2]
    \/ p[1] = q[1] /\ p[2] = q[2] /\ p[3] < q[3]
    \/ p[1] = q[1] /\ p[2] = q[2] /\ p[3] = q[3] /\ p[4] <= q[4]

\* the texts drawn at the places ks of the calls, in the order of the calls
TextsAt(ks) ==
    LET at == SelectSeq([i \in 1..Len(Drawn) |-> i], LAMBDA i : i \in ks)
    IN  [n \in 1..Len(at) |-> Drawn[at[n]].text]

----------------------------------------------------------------------------
(* What the properties of wrapText are told in *)

\* str, which starts with no whitespace, with every run of whitespace
\* replaced by one space
Collapse(str) ==
    LET marked == [i \in 1..Len(str) |->
                      [ch |-> IF IsSpace(str[i]) THEN " " ELSE str[i],
                       first |-> ~IsSpace(str[i]) \/ ~IsSpace(str[i - 1])]]
        kept == SelectSeq(marked, LAMBDA m : m.first)
    IN  [k \in 1..Len(kept) |-> kept[k].ch]

\* the whitespace-normalized text: runs collapsed, ends trimmed
Normalized(text) == Collapse(trim(text))

RECURSIVE JoinLines(_)
\* lines.join(" ")
JoinLines(lines) ==
    IF lines = <<>> THEN <<>>
    ELSE IF Len(lines) = 1 THEN lines[1]
    ELSE lines[1] \o <<" ">> \o JoinLines(Tail(lines))

\* no word of text is longer than maxChars: every maxChars + 1 characters in a
\* row hold a whitespace character
WordsFit(text, maxChars) ==
    \A i \in 1..(Len(text) - maxChars) :
        \E j \in i..(i + maxChars) : IsSpace(text[j])

\* the first word of a line: its characters before the first whitespace
FirstWord(line) ==
    LET spaces == { i \in 1..Len(line) : IsSpace(line[i]) }
    IN  IF spaces = {} THEN line
        ELSE SubSeq(line, 1, (CHOOSE i \in spaces : \A j \in spaces : i <= j) - 1)

\* the last word of a line: its characters after the last whitespace
LastWord(line) ==
    LET spaces == { i \in 1..Len(line) : IsSpace(line[i]) }
    IN  IF spaces = {} THEN line
        ELSE SubSeq(line, (CHOOSE i \in spaces : \A j \in spaces : j <= i) + 1,
                    Len(line))

----------------------------------------------------------------------------
(* Properties *)

\* C1: at most one generation is in flight at any time; while busy no new
\* invocation of handleGenerate begins, and a click made while busy changes
\* neither paper, seed, regenLeft nor error and sends no request.
C1_AtMostOneInFlight ==
    [][ /\ Cardinality(inflight') <= 1
        /\ busy => ~Starts
        /\ \A r \in BOOLEAN :
             (busy /\ IgnoredClick(r)) =>
                 UNCHANGED <<paper, seed, regenLeft, error, busy, inflight, regenSent>>
      ]_vars

\* C1 witness: a click was ignored while a request is in flight
C1_Witness ==
    /\ busy
    /\ lastEvent.kind = "ignored"
    /\ \E a \in inflight : a.pc = "fetch"

\* C2: an attempt that fails (its request fails in any way, or the client
\* key is missing) leaves the stored paper as it was.
C2_FailureKeepsPaper ==
    [][ /\ \A a \in inflight : (Completes(a) /\ error' # None) => paper' = paper
        /\ (lastEvent' # lastEvent /\ lastEvent'.kind \in {"fail", "nokey"})
               => paper' = paper
      ]_vars

\* C2 witness: an attempt failed on a response with an empty sections array
\* while a paper from an earlier attempt is stored
C2_Witness ==
    /\ lastEvent.kind = "fail"
    /\ lastEvent.sections = "empty"
    /\ error # None
    /\ paper # None

\* C3: the budget is 3 minus the number of successful regenerations, so
\* three of them bring it to 0; at budget 0 no regeneration begins, no
\* regeneration request is sent, and a click on Regenerate changes neither
\* paper, error nor budget.
C3_BudgetExhausted ==
    [][ /\ regenLeft' = RegenBudget - regenOk'
        /\ regenLeft = 0 =>
             /\ regenLeft' = 0
             /\ regenSent' = regenSent
             /\ \A a \in inflight' : ~a.isRegenerate
        /\ (regenLeft = 0 /\ IgnoredClick(TRUE)) =>
               UNCHANGED <<paper, seed, regenLeft, error, busy, inflight, regenSent>>
      ]_vars

\* C3 witness: after three successful regenerations a click on Regenerate
\* was ignored
C3_Witness ==
    /\ regenOk = RegenBudget
    /\ regenLeft = 0
    /\ ~busy
    /\ lastEvent.kind = "ignored"
    /\ lastEvent.isRegenerate

\* C4 as stated: the regeneration requests sent, successful and failed
\* together, never exceed the initial budget.
C4_RequestsWithinBudget == regenSent <= RegenBudget

\* C4 amended: the regenerations that succeed never exceed the initial
\* budget (failed ones consume none of it).
C4_SuccessesWithinBudget ==
    /\ regenOk <= RegenBudget
    /\ regenOk <= regenSent

\* C4 witness: more regeneration requests than the budget were sent, three
\* of them successful
C4_Witness ==
    /\ regenSent > RegenBudget
    /\ regenOk = RegenBudget

\* C5: after a successful attempt the stored paper's board, grade, subject,
\* topic, timeLimitMinutes, totalMarks and language are those of the form
\* the attempt started with, whatever the model returned and whatever the
\* form is by then.
C5_MetadataFromBlueprint ==
    [][ /\ \A a \in inflight' : (\A b \in inflight : b.id # a.id) => a.form = form
        /\ \A a \in inflight' : \A b \in inflight : b.id = a.id => a.form = b.form
        /\ \A a \in inflight :
             (Completes(a) /\ error' = None) =>
                 /\ paper' # None
                 /\ Metadata(paper').board = a.form.board
                 /\ Metadata(paper').grade = a.form.grade
                 /\ Metadata(paper').subject = a.form.subject
                 /\ Metadata(paper').topic = a.form.topic
                 /\ Metadata(paper').timeLimitMinutes = a.form.timeLimitMinutes
                 /\ Metadata(paper').totalMarks = a.form.totalMarks
                 /\ Metadata(paper').language = a.form.language
      ]_vars

\* C5 witness: an attempt succeeded on a response carrying the model's own
\* metadata, with the form edited while the request was in flight
C5_Witness ==
    /\ lastEvent.kind = "ok"
    /\ lastEvent.edited
    /\ paper # None
    /\ "author" \in DOMAIN Metadata(paper)
    /\ Metadata(paper).board # form.board

\* C6: every stored paper has version "1.0" and the seed of the request
\* that produced it: the session's seed at the click for a generation, the
\* drawn seed for a regeneration.
C6_VersionAndSeed ==
    [][ /\ paper' # None => Metadata(paper').version = "1.0"
        /\ \A a \in inflight' : (\A b \in inflight : b.id # a.id) => a.seed = seed
        /\ \A a \in inflight :
             (Completes(a) /\ error' = None) =>
                 /\ paper' # None
                 /\ Metadata(paper').seed = RequestOf(a).seed[1]
                 /\ ~a.isRegenerate => RequestOf(a).seed[1] = a.seed
      ]_vars

\* C6 witness: a regeneration succeeded on a response carrying the model's
\* own version and seed, and its seed is not the session's
C6_Witness ==
    /\ lastEvent.kind = "ok"
    /\ lastEvent.isRegenerate
    /\ paper # None
    /\ "author" \in DOMAIN Metadata(paper)
    /\ Metadata(paper).seed # seed

\* C7: a step of handleGenerate changes the session's seed only when it
\* completes a generation (not a regeneration) successfully, and then the
\* seed becomes the one that attempt used.
C7_SeedStability ==
    [][ /\ \A a \in inflight :
             Completes(a) =>
                 seed' = IF error' = None /\ ~a.isRegenerate THEN a.activeSeed ELSE seed
        /\ (inflight' # inflight /\ ~\E a \in inflight : Completes(a)) => seed' = seed
        /\ (lastEvent' # lastEvent /\ lastEvent'.kind \in {"nokey", "ignored"})
               => seed' = seed
      ]_vars

\* C7 witness: a regeneration succeeded with a seed other than the
\* session's, which is still stored
C7_Witness ==
    /\ lastEvent.kind = "ok"
    /\ lastEvent.isRegenerate
    /\ regenOk > 0
    /\ paper # None
    /\ Metadata(paper).seed # seed
    /\ "author" \notin DOMAIN Metadata(paper)

\* C8 as stated: a response whose content is {}, is absent, or has no
\* sections array or an empty one ends the attempt as a failure with an
\* error recorded.
C8_NoSectionsRejected ==
    (lastEvent.kind \in {"ok", "fail"}
        /\ lastEvent.sections \in {"absent", "empty", "not-array"})
    => (lastEvent.kind = "fail" /\ error # None)

\* C9 as stated: when the provider answers with a non-success status N, the
\* intermediary answers N and the attempt fails with the error "API error N".
C9_StatusSurfaces ==
    (lastEvent.kind \in {"ok", "fail"}
        /\ lastEvent.upstream # 0
        /\ ~(lastEvent.upstream >= 200 /\ lastEvent.upstream <= 299))
    => /\ lastEvent.status = lastEvent.upstream
       /\ lastEvent.kind = "fail"
       /\ error = Some("API error " \o ToString(lastEvent.upstream))

\* C10 as stated: whenever the credential is missing the exchange ends with
\* the configuration error (500) and no call of the provider is made.
C10_MissingKeyAlways500 ==
    (serverKey = "" /\ hpc \in {"responded", "threw"})
    => (hresp = ConfigurationError /\ hcalls = <<>>)

\* C10 amended: with the credential missing no call of the provider is ever
\* made, and every request that passes the handler's request checks ends
\* with the configuration error (500); every call made carries the
\* credential.
C10_NoCallWithoutKey ==
    /\ serverKey = "" => hcalls = <<>>
    /\ \A i \in 1..Len(hcalls) :
         serverKey # "" /\ hcalls[i].authorization = "Bearer " \o serverKey
    /\ (serverKey = "" /\ hpc = "responded" /\ WellFormed(hreq))
           => hresp = ConfigurationError
    /\ (hpc = "responded" /\ hresp = ConfigurationError) => serverKey = ""

\* C10 witness: a well-formed request was answered with the configuration
\* error
C10_Witness ==
    /\ serverKey = ""
    /\ hpc = "responded"
    /\ WellFormed(hreq)
    /\ hresp = ConfigurationError
    /\ hcalls = <<>>

\* C11 as stated: the audit log never blocks an attempt: every attempt in
\* flight has sent its generation request, none waits for the log write
\* (which may succeed, throw, or never complete).
C11_AuditNeverBlocks == \A a \in inflight : a.pc = "fetch"

\* C18: regenLeft is an integer in 0..3 and never increases; the only step
\* that changes it is the completion of a successful regeneration, which
\* lowers it by exactly one; the other attempts and the failed regenerations
\* leave it unchanged.
C18_BudgetSteps ==
    [][ /\ regenLeft \in 0..RegenBudget
        /\ regenLeft' \in 0..RegenBudget
        /\ regenLeft' <= regenLeft
        /\ regenLeft' # regenLeft =>
             \E a \in inflight :
                 Completes(a) /\ a.isRegenerate /\ error' = None
        /\ \A a \in inflight :
             Completes(a) =>
                 regenLeft' = IF a.isRegenerate /\ error' = None
                              THEN regenLeft - 1 ELSE regenLeft
      ]_vars

\* C18 witness: a regeneration failed after one had succeeded, and the budget
\* is that of the one success
C18_Witness ==
    /\ lastEvent.kind = "fail"
    /\ lastEvent.isRegenerate
    /\ regenSent >= 2
    /\ regenOk = 1
    /\ regenLeft = RegenBudget - 1

\* C19: the session is busy exactly while an attempt is suspended at an
\* await; the attempt whose request settles, successfully or with any
\* failure, runs to its end in that step and leaves the session idle with the
\* Generate button enabled again; an attempt stopped by the missing client
\* key leaves the session idle too.
C19_BackToIdle ==
    [][ /\ busy <=> inflight # {}
        /\ busy' <=> inflight' # {}
        /\ \A a \in inflight :
             Completes(a) => ~busy' /\ inflight' = {} /\ ~GenerateDisabled'
        /\ (lastEvent' # lastEvent /\ lastEvent'.kind = "nokey") => ~busy'
      ]_vars

\* C19 witness: an attempt failed because its request got no answer, and the
\* session is idle
C19_Witness ==
    /\ lastEvent.kind = "fail"
    /\ lastEvent.status = 0
    /\ error # None
    /\ ~busy
    /\ inflight = {}

\* C20: the start of an attempt clears the last error; when the attempt
\* completes the last error is empty exactly when a paper was accepted, and
\* otherwise it is the message of the failure, or "Generation failed" when
\* that message is empty (the failure being that of a settlement the request
\* can have: the handler's relay of the provider's reply when the step records
\* a provider status, and otherwise a rejected fetch or the handler's own
\* response).
C20_LastError ==
    [][ /\ Starts => error' = None
        /\ (lastEvent' # lastEvent /\ lastEvent'.kind = "nokey")
               => error' = Some(KeyMissing)
        /\ \A a \in inflight :
             Completes(a) =>
                 \E res \in
                     IF lastEvent'.upstream # 0
                     THEN {handlerAfterFetch(reply) :
                               reply \in {r \in UpstreamReplies :
                                              /\ ~r.failed
                                              /\ r.status = lastEvent'.upstream}}
                     ELSE ClientFailures \cup
                          (LET pre == handlerBeforeFetch(RequestOf(a), serverKey)
                           IN  IF pre.done THEN {pre.response}
                               ELSE {handlerAfterFetch(reply) :
                                         reply \in {r \in UpstreamReplies :
                                                        r.failed}}) :
                     /\ res.failed = (lastEvent'.status = 0)
                     /\ ~res.failed => res.status = lastEvent'.status
                     /\ \E g \in {Generated(res, a.form, a.activeSeed)} :
                            IF g.threw
                            THEN /\ error' = Some(IF g.message = ""
                                                   THEN "Generation failed"
                                                   ELSE g.message)
                                 /\ paper' = paper
                            ELSE /\ error' = None
                                 /\ paper' = Some(g.value[1])
      ]_vars

\* C20 witness: an attempt started with an error on display and failed with
\* a failure that carries no message
C20_Witness ==
    /\ lastEvent.kind = "fail"
    /\ error = Some("Generation failed")
    /\ regenSent >= 1

\* C13: for a text whose words are no longer than maxChars, every line that
\* wrapText returns has a trimmed length of at most maxChars, and the lines
\* joined with single spaces are the text with its whitespace runs collapsed
\* and its ends trimmed.
C13_WrapKeepsWords ==
    (xpc = "done" /\ WordsFit(xargs.text, xargs.maxChars)) =>
        /\ \A i \in 1..Len(xret) : Len(trim(xret[i])) <= xargs.maxChars
        /\ JoinLines(xret) = Normalized(xargs.text)

\* C13 witness: a text that starts with whitespace and holds a run of two
\* whitespace characters was wrapped into two lines or more
C13_Witness ==
    /\ xpc = "done"
    /\ WordsFit(xargs.text, xargs.maxChars)
    /\ Len(xret) >= 2
    /\ IsSpace(xargs.text[1])
    /\ \E i \in 1..(Len(xargs.text) - 1) :
         IsSpace(xargs.text[i]) /\ IsSpace(xargs.text[i + 1]) /\ i > 1

\* C16 as stated: of two blueprints that differ only in extraInstructions
\* being empty or not, the prompt of the one with extraInstructions is the
\* prompt of the other plus exactly one line, "- Extra: ..." (so the prompt
\* of the one without has no line, blank or other, in that place).
C16_ExtraLineAdded ==
    xpc = "done" =>
        LET given == xargs.extraInstructions
            text == IF given # "" THEN given ELSE "Focus on NCERT."
            with == IF given # "" THEN xret
                    ELSE buildPrompt([xargs EXCEPT !.extraInstructions = text])
            without == IF given = "" THEN xret
                       ELSE buildPrompt([xargs EXCEPT !.extraInstructions = ""])
        IN  \E k \in 1..Len(with) :
                /\ with[k] = "- Extra: " \o text
                /\ WithoutLine(with, k) = without

\* C12 as stated: no page break falls inside a question: the header of a
\* question and all the lines of its body are drawn on the same page (the
\* break a question needs comes before its header).
C12_QuestionOnOnePage ==
    ExportDone =>
        \A i, j \in TextsOf(Drawn, {"header", "body"}) :
            (Drawn[i].si = Drawn[j].si /\ Drawn[i].qi = Drawn[j].qi)
                => Drawn[i].page = Drawn[j].page

\* C14 as stated: every option of an mcq question is drawn, in list order,
\* and the text of the i-th option (from 0) begins with the character of
\* code 65 + i and "."
C14_OptionLetters ==
    ExportDone =>
        \A sq \in McqWithOptions : \A oi \in 1..Len(OptionsOf(sq)) : Lettered(sq, oi)

\* C17: the run of an export draws exactly one footer; no text is drawn and
\* no page is added after it; and it is drawn on the last page of the
\* document, however many pages there are.
C17_OneFooterLast ==
    ExportDone =>
        /\ Cardinality(TextsOf(Drawn, {"footer"})) = 1
        /\ \A f \in TextsOf(Drawn, {"footer"}) :
             /\ \A k \in 1..Len(Drawn) :
                  (Drawn[k].op \in {"text", "addPage"}) => k <= f
             /\ Drawn[f].page = LastPage
             /\ \A k \in 1..Len(Drawn) : Drawn[k].page <= Drawn[f].page

\* C17 witness: a run over three pages has ended with its footer on page 3
C17_Witness ==
    /\ ExportDone
    /\ LastPage = 3
    /\ \E f \in TextsOf(Drawn, {"footer"}) : Drawn[f].page = 3

\* C15 as stated: two runs of the export over the same paper make the same
\* sequence of calls.
C15_SameCalls == SecondRunDone => Drawn = xprev

\* C15 amended: two runs of the export over the same paper make the same
\* sequence of calls except for the footer, which differs at most in its
\* text (the time of the run) and in its x (which follows from the width of
\* that text); with the same footer text the two sequences are the same.
C15_SameCallsButFooter ==
    SecondRunDone =>
        /\ Len(Drawn) = Len(xprev)
        /\ \A k \in 1..Len(Drawn) :
             IF Drawn[k].role = "footer"
             THEN /\ Drawn[k] = [xprev[k] EXCEPT !.text = Drawn[k].text,
                                                 !.x = Drawn[k].x]
                  /\ Drawn[k].text = xprev[k].text => Drawn[k].x = xprev[k].x
             ELSE Drawn[k] = xprev[k]

\* C15 witness: a second run over a paper of more than one page has ended
\* at another time than the first, and its calls are not those of the first
C15_Witness ==
    /\ SecondRunDone
    /\ LastPage >= 2
    /\ Drawn # xprev


\* C22: wrapText is greedy: for every two consecutive lines it returns, the
\* earlier line with a space and the first word of the later line appended is
\* longer than maxChars; and the line being filled when the words run out is
\* returned, so the last word of the text ends the last line.
C22_Greedy ==
    xpc = "done" =>
        /\ \A i \in 1..(Len(xret) - 1) :
             Len(xret[i]) + 1 + Len(FirstWord(xret[i + 1])) > xargs.maxChars
        /\ trim(xargs.text) # <<>> =>
             /\ xret # <<>>
             /\ LastWord(xret[Len(xret)]) = LastWord(trim(xargs.text))

\* C22 witness: a first line of two words was filled and the rest of the
\* text was returned on a later line
C22_Witness ==
    /\ xpc = "done"
    /\ Len(xret) >= 2
    /\ \E i \in 1..Len(xret[1]) : xret[1][i] = " "
    /\ xret[Len(xret)] # <<>>

\* C27: wrapText returns no empty line, whatever the text and the width.
C27_NoEmptyLine ==
    xpc = "done" => \A i \in 1..Len(xret) : xret[i] # <<>>

\* C26: in every state busy is true exactly when an invocation of
\* handleGenerate has started and has not completed (it is suspended at the
\* audit write or at the request); busy is never false while a request is in
\* flight.
C26_BusyIffInFlight ==
    /\ busy <=> inflight # {}
    /\ \A a \in inflight : a.pc \in {"log", "fetch"} /\ busy

\* C26 witness: after an attempt that completed with a paper, a later attempt
\* has its request in flight and busy is true again
C26_Witness ==
    /\ paper # None
    /\ busy
    /\ \E a \in inflight : a.pc = "fetch"

\* C21: every section header, instruction line, question header, body line
\* and option line is drawn at a cursor y with 64 <= y and
\* y + needed <= pageHeight - 64, needed being the height its page check asks
\* for; a page is added before it exactly when the cursor it would have had
\* plus needed exceeds pageHeight - 64, and then it is drawn at y = 64 of the
\* next page, else at that cursor on the same page.
C21_BlocksWithinMargins ==
    \A k \in TextsOf(Drawn, BlockRoles) :
        LET j == PrevText(k)
            needed == Needed(Drawn[k].role)
            cursor == Drawn[j].y + Gap(Drawn[j], Drawn[k])
            limit == pageHeight - 64 * Pt
            broke == Drawn[k - 1].op = "addPage"
        IN  /\ 64 * Pt <= Drawn[k].y
            /\ Drawn[k].y + needed <= limit
            /\ broke <=> cursor + needed > limit
            /\ IF broke
               THEN Drawn[k].y = 64 * Pt /\ Drawn[k].page = Drawn[j].page + 1
               ELSE Drawn[k].y = cursor /\ Drawn[k].page = Drawn[j].page

\* C21 witness: an export has ended in which a page was added between two
\* instruction lines of a section
C21_Witness ==
    /\ ExportDone
    /\ \E k \in TextsOf(Drawn, {"instruction"}) :
         /\ Drawn[k - 1].op = "addPage"
         /\ Drawn[PrevText(k)].role = "instruction"

\* C23: option lines are drawn for a question exactly when its type is mcq
\* and its list of options is non-empty, and instruction lines are drawn for
\* a section exactly when its instructions text is non-empty; where a section
\* has no instruction lines, or a question no option lines, the block drawn
\* next on the same page is as far below as if the part were not there (22
\* points below a section header, a line height and 8 points below the last
\* line of a question, 8 more where a section ends).
C23_AbsentPartsTakeNoRoom ==
    ExportDone =>
        /\ \A si \in 1..Len(xargs.paper.structure.sections) :
             InstructionLines(si) # {}
                 <=> Truthy(xargs.paper.structure.sections[si].instructions)
        /\ \A sq \in QuestionsOf :
             OptionLinesOf(sq) # {} <=> sq \in McqWithOptions
        /\ \A k \in TextsOf(Drawn, {"header", "section"}) :
             LET j == k - 1
                 ends == IF Drawn[k].role = "section" THEN 8 * Pt ELSE 0
             IN  /\ (Drawn[j].op = "text" /\ Drawn[j].role = "section")
                        => Drawn[k].y = Drawn[j].y + 22 * Pt + ends
                 /\ (Drawn[j].op = "text" /\ Drawn[j].role \in {"header", "body"})
                        => Drawn[k].y = Drawn[j].y + lineHeight + 8 * Pt + ends

\* C24: the texts of an export come in this order: first the title, at
\* y = 64 of page 1, then the two metadata lines, then the blocks in the
\* order of the paper: for each section in turn one header
\* "{index}. {title}", its instruction lines, then its questions in stored
\* order, each as one header, its body lines, then its options in list
\* order; the lines of instructions and of a body are in the order wrapText
\* returns them.
C24_InPaperOrder ==
    ExportDone =>
        LET sections == xargs.paper.structure.sections
        IN  /\ Drawn[1].op = "text" /\ Drawn[1].role = "title"
            /\ Drawn[1].text = xargs.docTitle
            /\ Drawn[1].y = 64 * Pt /\ Drawn[1].page = 1
            /\ TextsOf(Drawn, {"title"}) = {1}
            /\ TextsOf(Drawn, {"meta"}) = {2, 3}
            /\ \A j \in TextsOf(Drawn, BlockRoles), k \in TextsOf(Drawn, BlockRoles) :
                 j < k => NoLater(PlaceOf(Drawn[j]), PlaceOf(Drawn[k]))
            /\ \A si \in 1..Len(sections) :
                 /\ \E k \in TextsOf(Drawn, {"section"}) :
                      /\ Drawn[k].text = Digits(si) \o <<".", " ">> \o sections[si].title
                      /\ \A j \in TextsOf(Drawn, {"section"}) :
                           Drawn[j].si = si <=> j = k
                 /\ Truthy(sections[si].instructions) =>
                      TextsAt(InstructionLines(si))
                          = wrapText(sections[si].instructions[1], 96)
            /\ \A sq \in QuestionsOf :
                 /\ Cardinality({ k \in TextsOf(Drawn, {"header"}) :
                                    Drawn[k].si = sq[1] /\ Drawn[k].qi = sq[2] }) = 1
                 /\ TextsAt({ k \in TextsOf(Drawn, {"body"}) :
                                Drawn[k].si = sq[1] /\ Drawn[k].qi = sq[2] })
                        = wrapText(sections[sq[1]].questions[sq[2]].text, 96)
            /\ \A k \in TextsOf(Drawn, BlockRoles) :
                 /\ Drawn[k].si \in 1..Len(sections)
                 /\ Drawn[k].qi > 0 => <<Drawn[k].si, Drawn[k].qi>> \in QuestionsOf

\* C24 witness: an export of a paper of two sections has ended, with
\* instruction lines in the first section and option lines in the second
C24_Witness ==
    /\ ExportDone
    /\ Len(xargs.paper.structure.sections) = 2
    /\ InstructionLines(1) # {}
    /\ \E sq \in McqWithOptions : sq[1] = 2 /\ OptionLinesOf(sq) # {}

\* C25: the footer is right-aligned: its x is pageWidth - marginX - the width
\* of its text at the font size it is drawn with, so its right edge is at
\* pageWidth - marginX.
C25_FooterRightAligned ==
    ExportDone =>
        \A k \in TextsOf(Drawn, {"footer"}) :
            Drawn[k].x + getTextWidth(Drawn[k].text, Drawn[k].fontSize)
                = pageWidth - marginX

========================================================================
